---- MODULE Spec2Model ----
(***************************************************************************)
(* Model of scripts/download-fuel-map.py: a command line run that reads a  *)
(* credential, derives a bounding box from a GeoJSON polygon file, issues  *)
(* one scene-search, and then, scene by scene, download-options,           *)
(* download-request and a streamed file GET.                               *)
(*                                                                         *)
(* A run starts after argparse has accepted the command line (line 219).   *)
(* Remote responses are inputs: each call draws its response from a        *)
(* bounded set.  An exception nobody catches ends the interpreter with     *)
(* exit status 1; sys.exit(n) ends it with status n.                       *)
(***************************************************************************)
EXTENDS Integers, Sequences, FiniteSets, TLC

\* ---------------------------------------------------------------- bounds
MaxLon == 3
MaxLat == 2
MaxFeatures == 2
MaxScenes == 2
MaxEntity == 2
MaxOptions == 2
MaxProduct == 2
MaxLinks == 2
MaxBody == 1

\* ------------------------------------------------------------- utilities
Min(S) == CHOOSE m \in S : \A n \in S : m <= n
Max(S) == CHOOSE m \in S : \A n \in S : m >= n

SeqsUpTo(S, n) == UNION {[1..k -> S] : k \in 0..n}

\* The sequences of SeqsUpTo(S, n) in which Key(element) never repeats.
DistinctBy(S, n, Key(_)) ==
    {s \in SeqsUpTo(S, n) :
        \A i \in DOMAIN s : \A j \in DOMAIN s : i # j => Key(s[i]) # Key(s[j])}

\* ------------------------------------------------------ geometry (shapely)
Lons == 0..MaxLon
Lats == 0..MaxLat

\* A closed exterior ring of an axis-aligned rectangle, as GeoJSON lists it.
RectRing(x1, y1, x2, y2) ==
    << <<x1, y1>>, <<x2, y1>>, <<x2, y2>>, <<x1, y2>>, <<x1, y1>> >>

\* shape(): the geometry object built from a GeoJSON geometry member.
Polygons ==
    {[gtype |-> "Polygon", ring |-> RectRing(x1, y1, x2, y2)] :
        <<x1, y1, x2, y2>> \in
            {b \in Lons \X Lats \X Lons \X Lats : b[1] < b[3] /\ b[2] < b[4]}}

\* Points on the southern edge: enough to lie inside, on or off a polygon.
Points ==
    {[gtype |-> "Point", ring |-> << <<x, 0>> >>] : x \in Lons}

Geometries == Polygons \cup Points

Xs(g) == {g.ring[i][1] : i \in DOMAIN g.ring}
Ys(g) == {g.ring[i][2] : i \in DOMAIN g.ring}

\* geom.bounds of a non-empty geometry: (minx, miny, maxx, maxy).
Bounds(g) == <<Min(Xs(g)), Min(Ys(g)), Max(Xs(g)), Max(Ys(g))>>

\* The closed point sets of two geometries share a point.
Intersects(g, h) ==
    LET a == Bounds(g)  b == Bounds(h)
    IN  a[1] <= b[3] /\ b[1] <= a[3] /\ a[2] <= b[4] /\ b[2] <= a[4]

IsPolygonal(g) == g.gtype \in {"Polygon", "MultiPolygon"}

\* The vertices of all the geometries of a list, one after the other.
RECURSIVE AllVertices(_)
AllVertices(gs) ==
    IF gs = <<>> THEN <<>> ELSE Head(gs).ring \o AllVertices(Tail(gs))

\* unary_union(geometries).  Points covered by a polygon are absorbed by it;
\* any other point makes the result a GeometryCollection (or a Point or
\* MultiPoint), an empty list gives an empty GeometryCollection.  The union of
\* polygons is a Polygon or a MultiPolygon; the isinstance test of line 102
\* accepts both, so the label of a partly connected union is not refined.
unary_union(gs) ==
    LET idx    == DOMAIN gs
        polys  == {i \in idx : gs[i].gtype = "Polygon"}
        loose  == {i \in idx : gs[i].gtype = "Point" /\
                               \A j \in polys : ~Intersects(gs[i], gs[j])}
        apart  == \A i \in polys : \A j \in polys : i # j => ~Intersects(gs[i], gs[j])
        kept   == SelectSeq(gs, LAMBDA g : g.gtype = "Polygon")
    IN  IF loose # {} \/ polys = {}
        THEN [gtype |-> "GeometryCollection", ring |-> AllVertices(gs)]
        ELSE [gtype |-> IF Cardinality(polys) > 1 /\ apart
                        THEN "MultiPolygon" ELSE "Polygon",
              ring  |-> AllVertices(kept)]

\* The contents of the --geojson file after json.load: its "type" member
\* ("missing" when the object has none) and the geometries it carries.
GeoFiles ==
    {[type |-> "missing", geoms |-> <<>>], [type |-> "Unknown", geoms |-> <<>>]}
    \cup {[type |-> "FeatureCollection", geoms |-> gs] :
            gs \in SeqsUpTo(Geometries, MaxFeatures)}
    \cup {[type |-> "Feature", geoms |-> <<g>>] : g \in Geometries}
    \cup {[type |-> g.gtype, geoms |-> <<g>>] : g \in Geometries}

NoBbox == <<>>

\* Lines 75-90: the list of geometries collected from the file.
CollectGeometries(data) == data.geoms

UnionGeomFirstOnly(geometries) ==
    IF Len(geometries) >= 1 THEN geometries[1] ELSE unary_union(geometries)

\* Lines 92-96: the geometry whose bounds are taken.
UnionGeom(geometries) ==
    IF Len(geometries) = 1 THEN geometries[1] ELSE unary_union(geometries)

\* parse_geojson_bbox: the bounding box, or NoBbox when it raises ValueError
\* (no "type" member, a geometry type shape() does not know, or a union that
\* is not polygonal).  The geometries of the model are valid, so the repair of
\* line 99 leaves them as they are.
parse_geojson_bbox(data) ==
    IF data.type \in {"missing", "Unknown"} THEN NoBbox
    ELSE LET union_geom == UnionGeom(CollectGeometries(data))
         IN  IF IsPolygonal(union_geom) THEN Bounds(union_geom) ELSE NoBbox

\* ------------------------------------------------------- remote responses
EntityIds == 1..MaxEntity
ProductIds == 1..MaxProduct
Urls == 1..MaxLinks
Bodies == 0..MaxBody

\* product_id = None (line 161); no link; no file <id>.tif in out_dir.
NoProduct == 0
NoUrl == 0
NoFile == -1

\* scene-search: an HTTP error status, a JSON object without "data", with
\* "data": null, with a "data" object that has no "results", or with a
\* "results" list of scene records (only entityId is used).
SearchResponses ==
    {[kind |-> k, results |-> <<>>] :
        k \in {"http_error", "no_data", "data_null", "no_results"}}
    \cup {[kind |-> "results", results |-> r] : r \in SeqsUpTo(EntityIds, MaxScenes)}

\* download-options: an HTTP error status, an empty object or one without
\* "data", or a "data" list of items with "id" and "available", one item per
\* product.
OptionItems == [id : ProductIds, available : BOOLEAN]

OptionsResponses ==
    {[kind |-> k, data |-> <<>>] : k \in {"http_error", "no_data"}}
    \cup {[kind |-> "data", data |-> d] :
            d \in DistinctBy(OptionItems, MaxOptions, LAMBDA item : item.id)}

\* download-request: an HTTP error status, a missing or empty "data", or a
\* "data" object with the lists availableDownloads (of urls, one per
\* download) and preparingDownloads (either may be absent, read as []).
RequestResponses ==
    {[kind |-> k, availableDownloads |-> <<>>, preparingDownloads |-> <<>>] :
        k \in {"http_error", "no_data"}}
    \cup {[kind |-> "data", availableDownloads |-> a, preparingDownloads |-> p] :
            a \in DistinctBy(Urls, MaxLinks, LAMBDA u : u),
            p \in {<<>>, <<"preparing">>}}

\* The file GET: an HTTP error status with its error page, or the body.
GetResponses == [kind : {"http_error", "ok"}, body : Bodies]

\* No response in hand (the variable is not bound, or no longer read).
NoSearch == [kind |-> "none", results |-> <<>>]
NoOptions == [kind |-> "none", data |-> <<>>]
NoRequest == [kind |-> "none", availableDownloads |-> <<>>, preparingDownloads |-> <<>>]
NoGet == [kind |-> "none", body |-> 0]

\* What the remote service answered for the scene in hand, call by call:
\* the record the properties of a run are stated against.
NothingSeen == [options |-> "none", staged |-> "none", get |-> "none", body |-> NoFile]

OptionsSeen(resp) ==
    IF resp.kind # "data" THEN resp.kind
    ELSE IF \E i \in DOMAIN resp.data : resp.data[i].available
         THEN "available" ELSE "no_available"

StagedSeen(resp) ==
    IF resp.kind # "data" THEN resp.kind
    ELSE IF resp.availableDownloads # <<>> THEN "link"
    ELSE IF resp.preparingDownloads # <<>> THEN "preparing"
    ELSE "no_link"

\* ------------------------------------------------------------------ state
VARIABLES
    token,          \* EROS_API_TOKEN: "unset", "empty" or "set"
    geojson,        \* contents of the --geojson file
    bbox_arg,       \* the four numbers of --bbox, NoBbox under --geojson
    pc,             \* the next step of main
    file_read,      \* the polygon file has been opened
    bbox,           \* the resolved bounding box
    search_result,  \* main: the scene-search response
    scenes,         \* main: search_result['data']['results'] (entity ids)
    idx,            \* main: position of the scene in hand (1-based)
    download_opts,  \* download_scene: the download-options response
    product_id,     \* download_scene: the product chosen
    download_request_resp,  \* download_scene: the download-request response
    download_url,   \* download_scene: the link to fetch
    get_resp,       \* download_scene: r, the response of the file GET
    dir_created,    \* os.makedirs(out_dir) has run
    files,          \* out_dir: entity id -> contents of <id>.tif, or NoFile
    log,            \* the remote calls issued, in order
    seen,           \* what the service answered for the scene in hand
    outcomes,       \* per scene handled: how download_scene ended and on what
    console,        \* the status lines printed, in order
    exit_status,    \* process exit status once pc = "exited"
    raised          \* the run ended on an exception nobody caught

vars == <<token, geojson, bbox_arg, pc, file_read, bbox, search_result, scenes,
          idx, download_opts, product_id, download_request_resp, download_url,
          get_resp, dir_created, files, log, seen, outcomes, console,
          exit_status, raised>>

inputs == <<token, geojson, bbox_arg>>

\* The locals of download_scene.
locals == <<download_opts, product_id, download_request_resp, download_url, get_resp>>

\* A remote call and the position of the scene it is for (0: none).
Call(name, scene) == [call |-> name, scene |-> scene]

Outcome(result, s) ==
    [result |-> result, options |-> s.options, staged |-> s.staged,
     get |-> s.get, body |-> s.body]

\* The polygon files of the end-to-end runs: a file without "type", a lone
\* point and a feature collection of one polygon (SpecParse covers GeoFiles).
MainFiles ==
    {[type |-> "missing", geoms |-> <<>>],
     [type |-> "Feature", geoms |-> <<[gtype |-> "Point", ring |-> << <<0, 0>> >>]>>],
     [type |-> "FeatureCollection",
      geoms |-> <<[gtype |-> "Polygon", ring |-> RectRing(0, 0, 1, 1)]>>]}

Tokens == {"unset", "empty", "set"}

InitWith(tokens, files_in, bboxes) ==
    /\ token \in tokens
    /\ geojson \in files_in
    /\ bbox_arg \in bboxes
    /\ pc = "get_api_key"
    /\ file_read = FALSE
    /\ bbox = NoBbox
    /\ search_result = NoSearch
    /\ scenes = <<>>
    /\ idx = 0
    /\ download_opts = NoOptions
    /\ product_id = NoProduct
    /\ download_request_resp = NoRequest
    /\ download_url = NoUrl
    /\ get_resp = NoGet
    /\ dir_created = FALSE
    /\ files = [e \in EntityIds |-> NoFile]
    /\ log = <<>>
    /\ seen = NothingSeen
    /\ outcomes = <<>>
    /\ console = <<>>
    /\ exit_status = 0
    /\ raised = FALSE

Init == InitWith(Tokens, MainFiles, {NoBbox})

\* sys.exit(status), or with exc = TRUE an exception that reaches the top
\* of the interpreter (traceback, status 1).
Exit(status, exc) ==
    /\ pc' = "exited"
    /\ exit_status' = status
    /\ raised' = exc

StatusNotChecked(resp) == FALSE

\* response.raise_for_status() (lines 59 and 205).
raise_for_status(resp) == resp.kind = "http_error"

\* ------------------------------------------------------------ credential
MissingTokenIsNone(t) == t = "unset"

\* Line 43: `not token` holds for None and for the empty string.
MissingToken(t) == t \in {"unset", "empty"}

\* Lines 38-46 and 222: get_api_key.
GetApiKey ==
    /\ pc = "get_api_key"
    /\ IF MissingToken(token)
       THEN /\ console' = Append(console, "Error: EROS_API_TOKEN environment variable not set.")
            /\ Exit(1, FALSE)
       ELSE /\ pc' = "resolve_bbox"
            /\ UNCHANGED <<console, exit_status, raised>>
    /\ UNCHANGED <<inputs, file_read, bbox, search_result, scenes, idx, locals,
                   dir_created, files, log, seen, outcomes>>

\* ---------------------------------------------------------- bounding box
\* Lines 225-226: parse_geojson_bbox(args.geojson); its ValueError is not caught.
ParseGeojson ==
    /\ pc = "resolve_bbox"
    /\ bbox_arg = NoBbox
    /\ file_read' = TRUE
    /\ LET result == parse_geojson_bbox(geojson)
       IN  IF result = NoBbox
           THEN /\ Exit(1, TRUE)
                /\ UNCHANGED <<bbox, console>>
           ELSE /\ bbox' = result
                /\ console' = Append(console, "[INFO] Parsed bounding box from GeoJSON")
                /\ pc' = "search"
                /\ UNCHANGED <<exit_status, raised>>
    /\ UNCHANGED <<inputs, search_result, scenes, idx, locals, dir_created,
                   files, log, seen, outcomes>>

OrderedOnLongitudeOnly(b) == b[1] <= b[3]

\* The ordering a literal --bbox must satisfy: min <= max on each axis.
OrderedBbox(b) == b[1] <= b[3] /\ b[2] <= b[4]

\* The literal variant of the script: the four numbers of --bbox are taken as
\* the bounding box once their ordering is validated; a box out of order is
\* rejected and the run ends.
ResolveBbox ==
    /\ pc = "resolve_bbox"
    /\ bbox_arg # NoBbox
    /\ IF OrderedBbox(bbox_arg)
       THEN /\ bbox' = bbox_arg
            /\ pc' = "search"
            /\ UNCHANGED <<console, exit_status, raised>>
       ELSE /\ console' = Append(console, "Error: bounding box out of order")
            /\ Exit(1, FALSE)
            /\ UNCHANGED bbox
    /\ UNCHANGED <<inputs, file_read, search_result, scenes, idx, locals,
                   dir_created, files, log, seen, outcomes>>

\* ---------------------------------------------------------------- search
\* Lines 108-138 through api_post (48-60), called at line 229.
SearchCall ==
    /\ pc = "search"
    /\ \E resp \in SearchResponses :
          /\ log' = Append(log, Call("scene-search", 0))
          /\ search_result' = resp
          /\ IF raise_for_status(resp)
             THEN Exit(1, TRUE)
             ELSE pc' = "check_search" /\ UNCHANGED <<exit_status, raised>>
    /\ console' = Append(console, "[INFO] Searching for dataset")
    /\ UNCHANGED <<inputs, file_read, bbox, scenes, idx, locals, dir_created,
                   files, seen, outcomes>>

SearchVerdictKeyError(resp) ==
    IF resp.kind \in {"http_error", "no_data"} THEN "unexpected"
    ELSE IF resp.kind \in {"data_null", "no_results"} THEN "type_error"
    ELSE IF resp.results = <<>> THEN "no_scenes"
    ELSE "scenes"

\* Lines 230-236: what main makes of the search response.  A body without
\* "data" is unexpected; `'results' not in None` raises TypeError; a "data"
\* without "results", or with an empty list, means no scenes.
SearchVerdict(resp) ==
    IF resp.kind \in {"http_error", "no_data"} THEN "unexpected"
    ELSE IF resp.kind = "data_null" THEN "type_error"
    ELSE IF resp.kind = "no_results" \/ resp.results = <<>> THEN "no_scenes"
    ELSE "scenes"

\* Lines 230-239.
CheckSearch ==
    /\ pc = "check_search"
    /\ LET verdict == SearchVerdict(search_result)
       IN  CASE verdict = "unexpected" ->
                    /\ console' = Append(console, "[ERROR] Unexpected search response")
                    /\ Exit(1, FALSE)
                    /\ UNCHANGED <<scenes, idx>>
             [] verdict = "type_error" ->
                    /\ Exit(1, TRUE)
                    /\ UNCHANGED <<scenes, idx, console>>
             [] verdict = "no_scenes" ->
                    /\ console' = Append(console, "[INFO] No scenes found in the specified region.")
                    /\ Exit(0, FALSE)
                    /\ UNCHANGED <<scenes, idx>>
             [] OTHER ->
                    /\ scenes' = search_result.results
                    /\ console' = Append(console, "[INFO] Found scene(s)")
                    /\ idx' = 1
                    /\ pc' = "download_options"
                    /\ UNCHANGED <<exit_status, raised>>
    /\ UNCHANGED <<inputs, file_read, bbox, search_result, locals, dir_created,
                   files, log, seen, outcomes>>

\* ------------------------------------------------------- download_scene
\* Line 243: scene['entityId'] of the scene in hand.
SceneId == scenes[idx]

ReturnEndsRun(result, s) ==
    /\ outcomes' = Append(outcomes, Outcome(result, s))
    /\ seen' = NothingSeen
    /\ download_opts' = NoOptions
    /\ product_id' = NoProduct
    /\ download_request_resp' = NoRequest
    /\ download_url' = NoUrl
    /\ get_resp' = NoGet
    /\ IF result = "written" /\ idx < Len(scenes)
       THEN /\ idx' = idx + 1
            /\ pc' = "download_options"
            /\ UNCHANGED <<exit_status, raised>>
       ELSE /\ idx' = idx
            /\ Exit(0, FALSE)

ReturnStaysOnScene(result, s) ==
    /\ outcomes' = Append(outcomes, Outcome(result, s))
    /\ seen' = NothingSeen
    /\ download_opts' = NoOptions
    /\ product_id' = NoProduct
    /\ download_request_resp' = NoRequest
    /\ download_url' = NoUrl
    /\ get_resp' = NoGet
    /\ IF result = "written" /\ idx < Len(scenes)
       THEN /\ idx' = idx + 1
            /\ pc' = "download_options"
            /\ UNCHANGED <<exit_status, raised>>
       ELSE IF result # "written" /\ Len(outcomes) < MaxScenes
       THEN /\ idx' = idx
            /\ pc' = "download_options"
            /\ UNCHANGED <<exit_status, raised>>
       ELSE /\ idx' = idx
            /\ Exit(0, FALSE)

\* download_scene returns (lines 158, 169, 185, 197, 211): its locals are gone
\* and the loop of line 242 takes the next scene, or main ends with status 0.
Return(result, s) ==
    /\ outcomes' = Append(outcomes, Outcome(result, s))
    /\ seen' = NothingSeen
    /\ download_opts' = NoOptions
    /\ product_id' = NoProduct
    /\ download_request_resp' = NoRequest
    /\ download_url' = NoUrl
    /\ get_resp' = NoGet
    /\ IF idx < Len(scenes)
       THEN /\ idx' = idx + 1
            /\ pc' = "download_options"
            /\ UNCHANGED <<exit_status, raised>>
       ELSE /\ idx' = idx
            /\ Exit(0, FALSE)

\* An exception leaves download_scene and main: nothing catches it.
Raise(s) ==
    /\ outcomes' = Append(outcomes, Outcome("raised", s))
    /\ seen' = s
    /\ Exit(1, TRUE)
    /\ UNCHANGED idx

\* Lines 148-154: the download-options call.
OptionsCall ==
    /\ pc = "download_options"
    /\ \E resp \in OptionsResponses :
          LET s == [seen EXCEPT !.options = OptionsSeen(resp)]
          IN  /\ log' = Append(log, Call("download-options", idx))
              /\ download_opts' = resp
              /\ IF raise_for_status(resp)
                 THEN Raise(s)
                 ELSE /\ seen' = s
                      /\ pc' = "choose_product"
                      /\ UNCHANGED <<idx, outcomes, exit_status, raised>>
    /\ UNCHANGED <<inputs, file_read, bbox, search_result, scenes, product_id,
                   download_request_resp, download_url, get_resp, dir_created,
                   files, console>>

RECURSIVE LastAvailable(_)
LastAvailable(data) ==
    IF data = <<>> THEN NoProduct
    ELSE IF LastAvailable(Tail(data)) # NoProduct THEN LastAvailable(Tail(data))
    ELSE IF Head(data).available THEN Head(data).id
    ELSE NoProduct

\* Lines 160-165: the id of the first item flagged available, None if none.
RECURSIVE FirstAvailable(_)
FirstAvailable(data) ==
    IF data = <<>> THEN NoProduct
    ELSE IF Head(data).available THEN Head(data).id
    ELSE FirstAvailable(Tail(data))

\* Lines 156-169: no "data", no available product, or the product to stage.
ChooseProduct ==
    /\ pc = "choose_product"
    /\ IF download_opts.kind # "data"
       THEN /\ console' = Append(console, "[WARN] No download options returned for scene")
            /\ Return("no_options", seen)
       ELSE LET chosen == FirstAvailable(download_opts.data)
            IN  IF chosen = NoProduct
                THEN /\ console' = Append(console, "[WARN] No available products for scene")
                     /\ Return("no_available", seen)
                ELSE /\ product_id' = chosen
                     /\ pc' = "download_request"
                     /\ UNCHANGED <<idx, download_opts, download_request_resp,
                                    download_url, get_resp,
                                    seen, outcomes, console, exit_status, raised>>
    /\ UNCHANGED <<inputs, file_read, bbox, search_result, scenes, dir_created,
                   files, log>>

\* Lines 171-182: the download-request call, for product_id (line 177).
RequestCall ==
    /\ pc = "download_request"
    /\ \E resp \in RequestResponses :
          LET s == [seen EXCEPT !.staged = StagedSeen(resp)]
          IN  /\ log' = Append(log, Call("download-request", idx))
              /\ download_request_resp' = resp
              /\ download_opts' = NoOptions
              /\ IF raise_for_status(resp)
                 THEN Raise(s)
                 ELSE /\ seen' = s
                      /\ pc' = "read_link"
                      /\ UNCHANGED <<idx, outcomes, exit_status, raised>>
    /\ UNCHANGED <<inputs, file_read, bbox, search_result, scenes, product_id,
                   download_url, get_resp, dir_created, files, console>>

ImmediateLinkOrPreparing(data) ==
    IF data.availableDownloads # <<>> THEN data.availableDownloads[1]
    ELSE IF data.preparingDownloads # <<>> THEN 1
    ELSE NoUrl

\* Lines 187-192: the url of the first available download, if there is one.
ImmediateLink(data) ==
    IF data.availableDownloads # <<>> THEN data.availableDownloads[1] ELSE NoUrl

\* Lines 183-197: nothing staged, a link to fetch, or a download in
\* preparation (reported, not waited for).
ReadLink ==
    /\ pc = "read_link"
    /\ IF download_request_resp.kind # "data"
       THEN /\ console' = Append(console, "[ERROR] Could not stage download for scene")
            /\ Return("not_staged", seen)
       ELSE LET link == ImmediateLink(download_request_resp)
            IN  IF link # NoUrl
                THEN /\ download_url' = link
                     /\ download_request_resp' = NoRequest
                     /\ pc' = "download_file"
                     /\ UNCHANGED <<idx, download_opts, product_id, get_resp, seen,
                                    outcomes, console, exit_status, raised>>
                ELSE /\ console' =
                          IF download_request_resp.preparingDownloads # <<>>
                          THEN console \o <<"[INFO] Download is being prepared",
                                            "[INFO] Scenes in 'preparing' status">>
                          ELSE Append(console, "[INFO] Download is being prepared")
                     /\ Return("no_link", seen)
    /\ UNCHANGED <<inputs, file_read, bbox, search_result, scenes, dir_created,
                   files, log>>

\* Lines 199-204: create out_dir, name the file, GET the link.
GetCall ==
    /\ pc = "download_file"
    /\ dir_created' = TRUE
    /\ console' = Append(console, "[INFO] Downloading scene to")
    /\ \E resp \in GetResponses :
          /\ log' = Append(log, Call("GET", idx))
          /\ get_resp' = resp
          /\ seen' = [seen EXCEPT !.get = resp.kind,
                                  !.body = IF resp.kind = "ok" THEN resp.body ELSE NoFile]
    /\ pc' = "write_file"
    /\ UNCHANGED <<inputs, file_read, bbox, search_result, scenes, idx,
                   download_opts, product_id, download_request_resp, download_url,
                   files, outcomes, exit_status, raised>>

WriteFileByPosition(dir, entity, body) ==
    [dir EXCEPT ![IF idx \in DOMAIN dir THEN idx ELSE entity] = body]

\* Lines 201 and 206-208: open(<out_dir>/<entityId>.tif, 'wb') and write the
\* chunks in order: the file holds the body, whatever it held before.
WriteFile(dir, entity, body) == [dir EXCEPT ![entity] = body]

\* Lines 205-211: the status check, then the file.
WriteStep ==
    /\ pc = "write_file"
    /\ IF raise_for_status(get_resp)
       THEN /\ Raise(seen)
            /\ UNCHANGED <<locals, files, console>>
       ELSE /\ files' = WriteFile(files, SceneId, get_resp.body)
            /\ console' = Append(console, "[INFO] Download complete")
            /\ Return("written", seen)
    /\ UNCHANGED <<inputs, file_read, bbox, search_result, scenes, dir_created, log>>

\* --------------------------------------------------------- specifications
Next ==
    \/ GetApiKey
    \/ ParseGeojson
    \/ SearchCall
    \/ CheckSearch
    \/ OptionsCall
    \/ ChooseProduct
    \/ RequestCall
    \/ ReadLink
    \/ GetCall
    \/ WriteStep

Spec == Init /\ [][Next]_vars

\* parse_geojson_bbox alone, over every polygon file of the bounds.
InitParse == InitWith({"set"}, GeoFiles, {NoBbox})

NextParse ==
    \/ GetApiKey
    \/ ParseGeojson

SpecParse == InitParse /\ [][NextParse]_vars

\* The literal variant: --bbox in place of --geojson, the rest of the run as
\* above.  The boxes are out of order on either axis, on both, or on none.
LiteralBoxes == {<<1, 1, x, y>> : x \in {0, MaxLon}, y \in {0, MaxLat}}

InitLiteral == InitWith(Tokens, {[type |-> "missing", geoms |-> <<>>]}, LiteralBoxes)

NextLiteral ==
    \/ GetApiKey
    \/ ResolveBbox
    \/ SearchCall
    \/ CheckSearch
    \/ OptionsCall
    \/ ChooseProduct
    \/ RequestCall
    \/ ReadLink
    \/ GetCall
    \/ WriteStep

SpecLiteral == InitLiteral /\ [][NextLiteral]_vars

TypeOK ==
    /\ pc \in {"get_api_key", "resolve_bbox", "search", "check_search",
               "download_options", "choose_product", "download_request",
               "read_link", "download_file", "write_file", "exited"}
    /\ idx \in 0..MaxScenes
    /\ exit_status \in {0, 1}
    /\ product_id \in ProductIds \cup {NoProduct}
    /\ download_url \in Urls \cup {NoUrl}
    /\ \A e \in EntityIds : files[e] \in Bodies \cup {NoFile}
    /\ Len(outcomes) <= Len(scenes)

\* ----------------------------------------------------------- properties
Written == {e \in EntityIds : files[e] # NoFile}

PerSceneCalls == {i \in DOMAIN log : log[i].scene > 0}

Issued(name, k) == \E i \in DOMAIN log : log[i] = Call(name, k)

Handled == DOMAIN outcomes

\* The contents out_dir must hold given what the GETs served: for each
\* entity id the body of the last scene of that id served with an OK status.
Served(e) == {k \in Handled : scenes[k] = e /\ outcomes[k].get = "ok"}

ExpectedFiles ==
    [e \in EntityIds |-> IF Served(e) = {} THEN NoFile ELSE outcomes[Max(Served(e))].body]

LacksResults == search_result.kind \in {"no_data", "data_null", "no_results"}

\* C1 as stated: a search response without "results", with or without "data",
\* ends the run with a non-zero exit status and without any download call or
\* file.
C1_LacksResultsExitsNonZero ==
    (LacksResults /\ pc = "exited") =>
        exit_status # 0 /\ PerSceneCalls = {} /\ Written = {}

\* C1 amended: a search response without "results" ends the run at main's
\* test of it, with no download-options call, no download-request call and no
\* file; the exit status is 1 when the response has no "data" object (absent
\* or null) and 0 when it has a "data" object without "results".
C1_LacksResultsEndsRun ==
    LacksResults =>
        /\ pc \in {"check_search", "exited"}
        /\ PerSceneCalls = {} /\ Written = {} /\ ~dir_created
        /\ pc = "exited" =>
              exit_status = IF search_result.kind = "no_results" THEN 0 ELSE 1

C1_Witness ==
    /\ pc = "exited"
    /\ search_result.kind = "no_results"
    /\ exit_status = 0
    /\ log = <<Call("scene-search", 0)>>

\* C2: a literal bounding box with min > max on an axis is rejected: it never
\* becomes the box of the run, the run ends with a non-zero status and no
\* remote call is ever issued.
C2_InvertedBoxRejected ==
    (bbox_arg # NoBbox /\ (bbox_arg[1] > bbox_arg[3] \/ bbox_arg[2] > bbox_arg[4])) =>
        /\ log = <<>>
        /\ bbox = NoBbox
        /\ pc \in {"get_api_key", "resolve_bbox", "exited"}
        /\ pc = "exited" => exit_status # 0

C2_Witness ==
    /\ pc = "exited"
    /\ token = "set"
    /\ bbox_arg # NoBbox
    /\ bbox_arg[1] <= bbox_arg[3] /\ bbox_arg[2] > bbox_arg[4]
    /\ log = <<>>

\* C3: with the credential unset or empty the run reports the error and ends
\* with exit status 1; the polygon file is not read, no remote call is issued
\* and nothing is written.
C3_NoCredentialAborts ==
    token \in {"unset", "empty"} =>
        /\ pc \in {"get_api_key", "exited"}
        /\ ~file_read /\ log = <<>> /\ Written = {} /\ ~dir_created
        /\ pc = "exited" =>
              /\ exit_status = 1 /\ ~raised
              /\ console = <<"Error: EROS_API_TOKEN environment variable not set.">>

C3_Witness == token = "empty" /\ pc = "exited" /\ exit_status = 1

OnlyPreparing(resp) ==
    /\ resp.kind = "data"
    /\ resp.availableDownloads = <<>>
    /\ resp.preparingDownloads # <<>>

\* C4: on a download-request response with no available download and only
\* preparing ones, download_scene returns without an exception: no file GET,
\* no file written (none named after the scene unless an earlier scene of
\* the same id left it), out_dir not created by the call.
C4_PreparingLeavesNothing ==
    [][(pc = "read_link" /\ OnlyPreparing(download_request_resp)) =>
          /\ Len(outcomes') = Len(outcomes) + 1
          /\ outcomes'[Len(outcomes')].result = "no_link"
          /\ ~raised'
          /\ pc' # "download_file" /\ log' = log /\ ~Issued("GET", idx)
          /\ files' = files
          /\ (\A j \in 1..(idx - 1) : scenes[j] # SceneId) => files'[SceneId] = NoFile
          /\ dir_created' = dir_created
          /\ pc' = "exited" => exit_status' = 0]_vars

C4_Witness ==
    /\ Len(outcomes) = 1
    /\ outcomes[1].staged = "preparing"
    /\ outcomes[1].result = "no_link"
    /\ ~dir_created
    /\ Written = {}

Distinct(seq) == \A i \in DOMAIN seq : \A j \in DOMAIN seq : i # j => seq[i] # seq[j]

Immediate(o) == o.options = "available" /\ o.staged = "link" /\ o.get = "ok"

\* C5: when the search returns N scenes of distinct entity ids, each with an
\* option flagged available and an immediate link served with an OK status,
\* the run ends with exactly N files, <entityId>.tif per scene, each holding
\* the bytes served for its scene.
C5_EndToEnd ==
    (/\ pc = "exited"
     /\ scenes # <<>> /\ Distinct(scenes)
     /\ Len(outcomes) = Len(scenes)
     /\ \A k \in Handled : Immediate(outcomes[k])) =>
        /\ Written = {scenes[k] : k \in DOMAIN scenes}
        /\ Cardinality(Written) = Len(scenes)
        /\ \A k \in DOMAIN scenes : files[scenes[k]] = outcomes[k].body
        /\ exit_status = 0 /\ ~raised

C5_Witness ==
    /\ pc = "exited"
    /\ Len(scenes) = 2 /\ scenes[1] > scenes[2]
    /\ Len(outcomes) = 2
    /\ Immediate(outcomes[1]) /\ Immediate(outcomes[2])
    /\ outcomes[1].body # outcomes[2].body
    /\ Cardinality(Written) = 2

\* No option flagged available, or nothing to fetch yet (the download is
\* being prepared).
SkipCase(o) ==
    \/ o.options = "no_available"
    \/ o.options = "available" /\ o.staged \in {"preparing", "no_link"}

\* C6: a scene without an available option, or whose download is still
\* being prepared, is skipped and nothing else: it ends without an exception
\* and without a GET, the next scene of the list gets its download-options
\* call (a skipped last scene ends the run with status 0), and every later
\* scene that is immediately available has its file written.
C6_SkipOnlyThatScene ==
    \A k \in Handled :
        SkipCase(outcomes[k]) =>
            /\ outcomes[k].result \in {"no_available", "no_link"}
            /\ ~Issued("GET", k)
            /\ k < Len(scenes) =>
                  \/ Issued("download-options", k + 1)
                  \/ pc = "download_options" /\ idx = k + 1
            /\ k = Len(scenes) => pc = "exited" /\ exit_status = 0 /\ ~raised
            /\ \A j \in Handled :
                  (j > k /\ Immediate(outcomes[j])) =>
                      /\ outcomes[j].result = "written"
                      /\ files[scenes[j]] = ExpectedFiles[scenes[j]]
                      /\ files[scenes[j]] # NoFile

C6_Witness ==
    /\ Len(outcomes) = 2
    /\ outcomes[1].staged = "preparing"
    /\ outcomes[2].result = "written"
    /\ scenes[1] # scenes[2]
    /\ files[scenes[2]] = outcomes[2].body
    /\ files[scenes[1]] = NoFile

Rank(call) ==
    CASE call = "download-options" -> 1
      [] call = "download-request" -> 2
      [] call = "GET" -> 3
      [] OTHER -> 0

\* C7: the remote calls of a run are one-shot and in order.  scene-search is
\* the first call, issued once, and a run that gets past bounding-box
\* resolution has issued it; the calls of a scene are download-options,
\* download-request, GET in this order, each at most once and none without
\* the one before; and a call for a scene is issued only after the scene
\* before it was written or skipped.
C7_CallsOrderedOneShot ==
    /\ \A i \in DOMAIN log : (log[i].call = "scene-search") <=> (i = 1)
    /\ pc \notin {"get_api_key", "resolve_bbox", "search", "exited"} => log # <<>>
    /\ \A i \in DOMAIN log : \A j \in DOMAIN log :
          (i < j /\ i > 1) =>
              \/ log[i].scene < log[j].scene
              \/ log[i].scene = log[j].scene /\ Rank(log[i].call) < Rank(log[j].call)
    /\ \A j \in PerSceneCalls :
          /\ log[j].scene \in DOMAIN scenes
          /\ Rank(log[j].call) > 1 =>
                log[j - 1] = Call(IF Rank(log[j].call) = 2 THEN "download-options"
                                  ELSE "download-request", log[j].scene)
          /\ log[j].scene > 1 =>
                /\ log[j].scene - 1 \in Handled
                /\ outcomes[log[j].scene - 1].result # "raised"

C7_Witness ==
    /\ pc = "exited"
    /\ Len(scenes) = 2
    /\ Len(log) = 7
    /\ log[7] = Call("GET", 2)

\* Several polygon features, pairwise disjoint.
DisjointPolygons(data) ==
    /\ data.type = "FeatureCollection"
    /\ Len(data.geoms) >= 2
    /\ \A i \in DOMAIN data.geoms : data.geoms[i].gtype = "Polygon"
    /\ \A i \in DOMAIN data.geoms : \A j \in DOMAIN data.geoms :
          i # j => ~Intersects(data.geoms[i], data.geoms[j])

FeatureBounds(data) == {Bounds(data.geoms[i]) : i \in DOMAIN data.geoms}

\* C8: for a file of several disjoint polygon features parse_geojson_bbox
\* returns the componentwise minimum of the features' mins and maximum of
\* their maxes, and the box has min <= max on each axis.
C8_BoundsOfUnion ==
    (file_read /\ DisjointPolygons(geojson)) =>
        /\ pc = "search"
        /\ bbox = <<Min({b[1] : b \in FeatureBounds(geojson)}),
                    Min({b[2] : b \in FeatureBounds(geojson)}),
                    Max({b[3] : b \in FeatureBounds(geojson)}),
                    Max({b[4] : b \in FeatureBounds(geojson)})>>
        /\ bbox[1] <= bbox[3] /\ bbox[2] <= bbox[4]

C8_Witness ==
    /\ file_read /\ DisjointPolygons(geojson)
    /\ bbox # NoBbox
    /\ bbox # Bounds(geojson.geoms[1])
    /\ bbox # Bounds(geojson.geoms[2])

\* C9: the product staged is the id of the first item, in response order,
\* flagged available, whatever comes after it; a scene with no item flagged
\* available gets no download-request call, no GET and no file.
C9_FirstAvailableStaged ==
    /\ pc = "download_request" =>
          \E i \in DOMAIN download_opts.data :
              /\ download_opts.data[i].available
              /\ \A j \in 1..(i - 1) : ~download_opts.data[j].available
              /\ product_id = download_opts.data[i].id
    /\ pc \in {"read_link", "download_file", "write_file"} => seen.options = "available"
    /\ \A k \in Handled :
          outcomes[k].options = "no_available" =>
              /\ outcomes[k].result = "no_available"
              /\ ~Issued("download-request", k) /\ ~Issued("GET", k)
              /\ files[scenes[k]] = ExpectedFiles[scenes[k]]
              /\ outcomes[k].get = "none"

C9_Witness ==
    /\ pc = "download_request"
    /\ Len(download_opts.data) = 2
    /\ download_opts.data[1].available /\ download_opts.data[2].available
    /\ product_id = download_opts.data[1].id

HttpError(o) == "http_error" \in {o.options, o.staged, o.get}

\* C10: an HTTP error status on download-options, download-request or the
\* file GET ends the run on the exception (exit status 1): no file is made
\* for the failing scene, no call is issued for a later scene, and the files
\* of earlier scenes stay as they were written.
C10_HttpErrorEndsRun ==
    \A k \in Handled :
        HttpError(outcomes[k]) =>
            /\ outcomes[k].result = "raised"
            /\ pc = "exited" /\ raised /\ exit_status = 1
            /\ k = Len(outcomes)
            /\ \A i \in DOMAIN log : log[i].scene <= k
            /\ outcomes[k].get # "ok"
            /\ files = ExpectedFiles
            /\ (\A j \in 1..(k - 1) : scenes[j] # scenes[k]) => files[scenes[k]] = NoFile

C10_Witness ==
    /\ Len(outcomes) = 2
    /\ outcomes[1].result = "written"
    /\ outcomes[2].get = "http_error"
    /\ pc = "exited"
    /\ scenes[1] # scenes[2]
    /\ files[scenes[1]] = outcomes[1].body
    /\ files[scenes[2]] = NoFile

====
